---------------------------- MODULE Spec2Model ----------------------------
(***************************************************************************)
(* Model of be/chat_tools_speakeasy/simulation.py: the token / latency /   *)
(* accuracy trade-off simulation of three context-loading approaches       *)
(* (full context, static tools, dynamic toolset).                          *)
(*                                                                         *)
(* The module's functions are numpy element-wise computations on float     *)
(* arrays.  Arrays are sequences; floats are exact rationals [num, den]    *)
(* in lowest terms (rounding of the last binary digit is not modelled).    *)
(* The two transcendental steps of dynamic_toolset_accuracy, the power    *)
(* and log10, are enclosed between a lower and an upper rational, so an    *)
(* accuracy of the dynamic toolset is an interval [lo, hi] that contains   *)
(* the real value the code computes.                                       *)
(***************************************************************************)
EXTENDS Integers, Sequences, FiniteSets, TLC

(***************************************************************************)
(* Exact rational arithmetic standing for numpy's float64 arithmetic.      *)
(***************************************************************************)
Abs(x) == IF x < 0 THEN -x ELSE x

RECURSIVE GCD(_, _)
GCD(a, b) == IF b = 0 THEN a ELSE GCD(b, a % b)

\* n / d in lowest terms with a positive denominator (d # 0).
Rat(n, d) ==
    LET s == IF d < 0 THEN -1 ELSE 1
        g == GCD(Abs(n), Abs(d))
    IN  [num |-> (s * n) \div g, den |-> (s * d) \div g]

RInt(n) == [num |-> n, den |-> 1]

\* The float64 values that are no numbers: a zero denominator marks them.
Inf == [num |-> 1, den |-> 0]
NegInf == [num |-> -1, den |-> 0]
NaN == [num |-> 0, den |-> 0]
IsNaN(a) == a.den = 0 /\ a.num = 0
IsInf(a) == a.den = 0 /\ a.num # 0
Sign(n) == IF n < 0 THEN -1 ELSE IF n > 0 THEN 1 ELSE 0

RAdd(a, b) ==
    IF IsNaN(a) \/ IsNaN(b) THEN NaN
    ELSE IF IsInf(a) /\ IsInf(b) THEN (IF a.num = b.num THEN a ELSE NaN)
    ELSE IF IsInf(a) THEN a
    ELSE IF IsInf(b) THEN b
    ELSE LET g == GCD(a.den, b.den)
         IN  Rat(a.num * (b.den \div g) + b.num * (a.den \div g),
                 (a.den \div g) * b.den)

RNeg(a) == [num |-> -a.num, den |-> a.den]

RSub(a, b) == RAdd(a, RNeg(b))

\* cross-reduced before multiplying, so that intermediate products stay small
RMul(a, b) ==
    IF IsNaN(a) \/ IsNaN(b) THEN NaN
    ELSE IF IsInf(a) \/ IsInf(b)
         THEN (IF a.num = 0 \/ b.num = 0 THEN NaN
               ELSE [num |-> Sign(a.num) * Sign(b.num), den |-> 0])
    ELSE IF a.num = 0 \/ b.num = 0 THEN RInt(0)
    ELSE LET g1 == GCD(Abs(a.num), b.den)
             g2 == GCD(Abs(b.num), a.den)
         IN  [num |-> (a.num \div g1) * (b.num \div g2),
              den |-> (a.den \div g2) * (b.den \div g1)]

\* a / b as numpy divides float arrays: x / 0 is inf or -inf, 0 / 0 is nan
\* (a RuntimeWarning, no exception)
RDiv(a, b) ==
    IF IsNaN(a) \/ IsNaN(b) THEN NaN
    ELSE IF IsInf(b) THEN (IF IsInf(a) THEN NaN ELSE RInt(0))
    ELSE IF b.num = 0
         THEN (IF a.num = 0 THEN NaN ELSE [num |-> Sign(a.num), den |-> 0])
    ELSE RMul(a, IF b.num < 0 THEN [num |-> -b.den, den |-> -b.num]
                 ELSE [num |-> b.den, den |-> b.num])

\* -1, 0 or 1 as an/ad is below, equal to or above bn/bd (ad, bd > 0): whole
\* parts first, then the remainders, so that no product is formed
RECURSIVE Cmp(_, _, _, _)
Cmp(an, ad, bn, bd) ==
    LET qa == an \div ad
        qb == bn \div bd
        ra == an % ad
        rb == bn % bd
    IN  IF qa < qb THEN -1
        ELSE IF qa > qb THEN 1
        ELSE IF ra = 0 /\ rb = 0 THEN 0
        ELSE IF ra = 0 THEN -1
        ELSE IF rb = 0 THEN 1
        ELSE Cmp(bd, rb, ad, ra)

\* a < b and a <= b; every comparison with nan is false
RLt(a, b) ==
    IF IsNaN(a) \/ IsNaN(b) THEN FALSE
    ELSE IF IsInf(a) \/ IsInf(b)
         THEN (IF IsInf(a) /\ IsInf(b) THEN a.num < b.num
               ELSE IF IsInf(a) THEN a.num < 0 ELSE b.num > 0)
    ELSE Cmp(a.num, a.den, b.num, b.den) < 0
RLe(a, b) == ~IsNaN(a) /\ ~IsNaN(b) /\ (a = b \/ RLt(a, b))

\* np.maximum / np.minimum on one element
RMax(a, b) == IF RLt(a, b) THEN b ELSE a
RMin(a, b) == IF RLt(b, a) THEN b ELSE a

\* An optional argument is a tuple of at most one value: None is Python's
\* None (the parameter's default), Some(v) an argument that was passed.
None == << >>
Some(v) == <<v>>

(***************************************************************************)
(* MODEL PARAMETERS (module-level constants of simulation.py)              *)
(***************************************************************************)
BASE_SYSTEM_PROMPT_TOKENS == 500
TOKENS_PER_TOOL_SCHEMA == 100
TOKENS_PER_ENTITY == 72
ENTITIES_PER_TYPE == 100
NUM_ENTITY_TYPES == 5

DYNAMIC_META_TOOLS_TOKENS == 150
DYNAMIC_DISCOVERY_OVERHEAD == 75
DYNAMIC_SCHEMAS_LOADED == Rat(25, 10)

LLM_BASE_LATENCY == 800
LLM_LATENCY_PER_1K_TOKENS == 50
TOOL_CALL_LATENCY == 200
DYNAMIC_EXTRA_LLM_CALLS == 2

CONTEXT_SIZE_ACCURACY_THRESHOLD == 20000
CONTEXT_SIZE_ACCURACY_DECAY == Rat(2, 100000)
MAX_CONTEXT_ACCURACY_LOSS == Rat(15, 100)

TOOL_COUNT_ACCURACY_THRESHOLD == 15
TOOL_COUNT_ACCURACY_DECAY == Rat(3, 1000)
MAX_TOOL_ACCURACY_LOSS == Rat(20, 100)

DISCOVERY_FAILURE_BASE_RATE == Rat(2, 100)
DISCOVERY_CYCLE_ERROR_RATE == Rat(15, 1000)
DYNAMIC_CYCLES_MIN == 2
DYNAMIC_CYCLES_AVG == 3
DYNAMIC_CYCLES_MAX == 6

(***************************************************************************)
(* numpy array helpers                                                     *)
(***************************************************************************)
\* np.arange(start, stop, step) for step > 0
arange(start, stop, step) ==
    LET len == IF stop <= start THEN 0 ELSE (stop - start + step - 1) \div step
    IN  [i \in 1..len |-> start + (i - 1) * step]

\* np.full_like(a, value, dtype=float)
full_like(a, value) == [i \in DOMAIN a |-> value]

\* array * scalar, as in `full_context_accuracy(tool_counts) * 100` and `x *= 100`
scale(a, k) == [i \in DOMAIN a |-> RMul(a[i], RInt(k))]

(***************************************************************************)
(* APPROACH MODELS: tokens and latency                                     *)
(***************************************************************************)
\* Mutant: the per-tool schema term of the static approach is added.
full_context_tokens_per_tool(num_tools) ==
    [i \in DOMAIN num_tools |->
        RInt(BASE_SYSTEM_PROMPT_TOKENS
             + ENTITIES_PER_TYPE * NUM_ENTITY_TYPES * TOKENS_PER_ENTITY
             + num_tools[i] * TOKENS_PER_TOOL_SCHEMA)]

full_context_tokens(num_tools) ==
    LET entity_tokens == ENTITIES_PER_TYPE * NUM_ENTITY_TYPES * TOKENS_PER_ENTITY
    IN  full_like(num_tools, RInt(BASE_SYSTEM_PROMPT_TOKENS + entity_tokens))

full_context_latency(num_tools) ==
    LET tokens == full_context_tokens(num_tools)
    IN  [i \in DOMAIN tokens |->
            RAdd(RInt(LLM_BASE_LATENCY),
                 RMul(RDiv(tokens[i], RInt(1000)), RInt(LLM_LATENCY_PER_1K_TOKENS)))]

\* Mutant: the schema term is subtracted.
static_tools_tokens_minus(num_tools) ==
    [i \in DOMAIN num_tools |->
        RAdd(RInt(BASE_SYSTEM_PROMPT_TOKENS - num_tools[i] * TOKENS_PER_TOOL_SCHEMA),
             RMul(RInt(10 * NUM_ENTITY_TYPES * TOKENS_PER_ENTITY), Rat(5, 10)))]

\* Mutant: at least one schema is always counted (np.maximum(num_tools, 1)).
static_tools_tokens_min_one(num_tools) ==
    [i \in DOMAIN num_tools |->
        RAdd(RInt(BASE_SYSTEM_PROMPT_TOKENS
                  + (IF num_tools[i] < 1 THEN 1 ELSE num_tools[i]) * TOKENS_PER_TOOL_SCHEMA),
             RMul(RInt(10 * NUM_ENTITY_TYPES * TOKENS_PER_ENTITY), Rat(5, 10)))]

static_tools_tokens(num_tools) ==
    LET data_tokens == RMul(RInt(10 * NUM_ENTITY_TYPES * TOKENS_PER_ENTITY), Rat(5, 10))
    IN  [i \in DOMAIN num_tools |->
            LET schema_tokens == num_tools[i] * TOKENS_PER_TOOL_SCHEMA
            IN  RAdd(RInt(BASE_SYSTEM_PROMPT_TOKENS + schema_tokens), data_tokens)]

static_tools_latency(num_tools) ==
    LET tokens == static_tools_tokens(num_tools)
        tool_latency == 3 * TOOL_CALL_LATENCY
    IN  [i \in DOMAIN tokens |->
            LET llm_latency ==
                    RAdd(RInt(LLM_BASE_LATENCY),
                         RMul(RDiv(tokens[i], RInt(1000)), RInt(LLM_LATENCY_PER_1K_TOKENS)))
            IN  RAdd(llm_latency, RInt(tool_latency))]

\* Mutant: the data term counts all ENTITIES_PER_TYPE entities of each type
\* instead of the 10 fetched through tools.
dynamic_toolset_tokens_all_entities(num_tools) ==
    full_like(num_tools,
        RAdd(RAdd(RInt(BASE_SYSTEM_PROMPT_TOKENS + DYNAMIC_META_TOOLS_TOKENS
                       + DYNAMIC_DISCOVERY_OVERHEAD),
                  RMul(DYNAMIC_SCHEMAS_LOADED, RInt(TOKENS_PER_TOOL_SCHEMA))),
             RMul(RInt(ENTITIES_PER_TYPE * NUM_ENTITY_TYPES * TOKENS_PER_ENTITY),
                  Rat(3, 10))))

\* Mutant: no more schemas are loaded than the catalog holds
\* (min(DYNAMIC_SCHEMAS_LOADED, num_tools) schemas).
dynamic_toolset_tokens_capped_by_catalog(num_tools) ==
    [i \in DOMAIN num_tools |->
        RAdd(RAdd(RInt(BASE_SYSTEM_PROMPT_TOKENS + DYNAMIC_META_TOOLS_TOKENS
                       + DYNAMIC_DISCOVERY_OVERHEAD),
                  RMul(RMin(RInt(num_tools[i]), DYNAMIC_SCHEMAS_LOADED),
                       RInt(TOKENS_PER_TOOL_SCHEMA))),
             RMul(RInt(10 * NUM_ENTITY_TYPES * TOKENS_PER_ENTITY), Rat(3, 10)))]

dynamic_toolset_tokens(num_tools) ==
    LET meta_tokens == DYNAMIC_META_TOOLS_TOKENS
        discovery_tokens == DYNAMIC_DISCOVERY_OVERHEAD
        loaded_schema_tokens == RMul(DYNAMIC_SCHEMAS_LOADED, RInt(TOKENS_PER_TOOL_SCHEMA))
        data_tokens == RMul(RInt(10 * NUM_ENTITY_TYPES * TOKENS_PER_ENTITY), Rat(3, 10))
    IN  full_like(num_tools,
            RAdd(RAdd(RInt(BASE_SYSTEM_PROMPT_TOKENS + meta_tokens + discovery_tokens),
                      loaded_schema_tokens),
                 data_tokens))

\* The first definition of dynamic_toolset_latency (no cycles parameter); the
\* module rebinds the name further down, so no caller reaches this one.
dynamic_toolset_latency_superseded(num_tools) ==
    LET tokens == dynamic_toolset_tokens(num_tools)
        tool_latency == 5 * TOOL_CALL_LATENCY
    IN  [i \in DOMAIN tokens |->
            LET llm_latency ==
                    RMul(RInt(1 + DYNAMIC_EXTRA_LLM_CALLS),
                         RAdd(RInt(LLM_BASE_LATENCY),
                              RMul(RDiv(tokens[i], RInt(1000)),
                                   RInt(LLM_LATENCY_PER_1K_TOKENS))))
            IN  RAdd(llm_latency, RInt(tool_latency))]

\* Mutant: the cycle count is ignored (the superseded formula is still bound).
dynamic_toolset_latency_ignoring_cycles(num_tools, cycles) ==
    dynamic_toolset_latency_superseded(num_tools)

\* Mutant: the tool calls do not scale with the cycles (5 * TOOL_CALL_LATENCY,
\* as in the superseded definition).
dynamic_toolset_latency_fixed_tool_calls(num_tools, cycles) ==
    LET c == IF cycles = None THEN DYNAMIC_CYCLES_AVG ELSE cycles[1]
        tokens == dynamic_toolset_tokens(num_tools)
    IN  [i \in DOMAIN tokens |->
            RAdd(RMul(RInt(c),
                      RAdd(RInt(LLM_BASE_LATENCY),
                           RMul(RDiv(tokens[i], RInt(1000)),
                                RInt(LLM_LATENCY_PER_1K_TOKENS)))),
                 RInt(5 * TOOL_CALL_LATENCY))]

\* The second, cycle-parametrized definition: the one bound to the name.
dynamic_toolset_latency(num_tools, cycles) ==
    LET c == IF cycles = None THEN DYNAMIC_CYCLES_AVG ELSE cycles[1]
        tokens == dynamic_toolset_tokens(num_tools)
        tool_latency == (c + 1) * TOOL_CALL_LATENCY
    IN  [i \in DOMAIN tokens |->
            LET llm_latency ==
                    RMul(RInt(c),
                         RAdd(RInt(LLM_BASE_LATENCY),
                              RMul(RDiv(tokens[i], RInt(1000)),
                                   RInt(LLM_LATENCY_PER_1K_TOKENS))))
            IN  RAdd(llm_latency, RInt(tool_latency))]

\* Mutant: the worst case is evaluated at the average cycle count.
dynamic_toolset_latency_range_worst_at_avg(num_tools) ==
    [best  |-> dynamic_toolset_latency(num_tools, Some(DYNAMIC_CYCLES_MIN)),
     avg   |-> dynamic_toolset_latency(num_tools, Some(DYNAMIC_CYCLES_AVG)),
     worst |-> dynamic_toolset_latency(num_tools, Some(DYNAMIC_CYCLES_AVG))]

dynamic_toolset_latency_range(num_tools) ==
    [best  |-> dynamic_toolset_latency(num_tools, Some(DYNAMIC_CYCLES_MIN)),
     avg   |-> dynamic_toolset_latency(num_tools, Some(DYNAMIC_CYCLES_AVG)),
     worst |-> dynamic_toolset_latency(num_tools, Some(DYNAMIC_CYCLES_MAX))]

(***************************************************************************)
(* ACCURACY MODELS                                                         *)
(***************************************************************************)
\* Mutant: the np.minimum cap on the context-size loss is dropped.
full_context_accuracy_uncapped(num_tools) ==
    LET tokens == full_context_tokens(num_tools)
    IN  [i \in DOMAIN tokens |->
            LET excess_tokens ==
                    RMax(RInt(0), RSub(tokens[i], RInt(CONTEXT_SIZE_ACCURACY_THRESHOLD)))
            IN  RSub(RSub(RInt(1), RMul(excess_tokens, CONTEXT_SIZE_ACCURACY_DECAY)),
                     Rat(2, 100))]

full_context_accuracy(num_tools) ==
    LET tokens == full_context_tokens(num_tools)
        data_noise_loss == Rat(2, 100)
    IN  [i \in DOMAIN tokens |->
            LET excess_tokens ==
                    RMax(RInt(0), RSub(tokens[i], RInt(CONTEXT_SIZE_ACCURACY_THRESHOLD)))
                context_loss ==
                    RMin(RMul(excess_tokens, CONTEXT_SIZE_ACCURACY_DECAY),
                         MAX_CONTEXT_ACCURACY_LOSS)
            IN  RSub(RSub(RInt(1), context_loss), data_noise_loss)]

\* Mutant: the np.minimum cap on the tool-overload loss is dropped.
static_tools_accuracy_uncapped(num_tools) ==
    [i \in DOMAIN num_tools |->
        LET excess_tools == RMax(RInt(0), RInt(num_tools[i] - TOOL_COUNT_ACCURACY_THRESHOLD))
        IN  RSub(Rat(98, 100), RMul(excess_tools, TOOL_COUNT_ACCURACY_DECAY))]

\* Mutant: the loss starts at the threshold itself (num_tools >= 15).
static_tools_accuracy_from_threshold(num_tools) ==
    [i \in DOMAIN num_tools |->
        LET excess_tools ==
                RMax(RInt(0), RInt(num_tools[i] - (TOOL_COUNT_ACCURACY_THRESHOLD - 1)))
        IN  RSub(Rat(98, 100),
                 RMin(RMul(excess_tools, TOOL_COUNT_ACCURACY_DECAY), MAX_TOOL_ACCURACY_LOSS))]

static_tools_accuracy(num_tools) ==
    LET base_accuracy == Rat(98, 100)
    IN  [i \in DOMAIN num_tools |->
            LET excess_tools ==
                    RMax(RInt(0), RInt(num_tools[i] - TOOL_COUNT_ACCURACY_THRESHOLD))
                tool_loss ==
                    RMin(RMul(excess_tools, TOOL_COUNT_ACCURACY_DECAY),
                         MAX_TOOL_ACCURACY_LOSS)
            IN  RSub(base_accuracy, tool_loss)]

\* Resolution of the enclosures of ** and log10: one part in ACC_SCALE.
ACC_SCALE == 1000000

\* x * r rounded down / up to a whole number (x >= 0, r >= 0)
FloorMul(x, r) == (x * r.num) \div r.den
CeilMul(x, r) == (x * r.num + r.den - 1) \div r.den

\* p * q / s rounded down / up (0 <= p, q <= s), formed in pieces that stay
\* within 32 bits
MulDivFloor(p, q, s) ==
    LET hi == p * (q \div 1000)
        lo == p * (q % 1000)
    IN  (hi \div s) * 1000 + ((hi % s) * 1000 + lo) \div s
MulDivCeil(p, q, s) ==
    LET hi == p * (q \div 1000)
        lo == p * (q % 1000)
    IN  (hi \div s) * 1000 + ((hi % s) * 1000 + lo + s - 1) \div s

\* b ** c in units of 1 / ACC_SCALE, rounded down / up (0 <= b <= 1, c >= 0),
\* as the product of the two half powers
RECURSIVE pow_lo(_, _)
pow_lo(b, c) ==
    IF c = 0 THEN ACC_SCALE
    ELSE IF c = 1 THEN FloorMul(ACC_SCALE, b)
    ELSE MulDivFloor(pow_lo(b, c \div 2), pow_lo(b, c - c \div 2), ACC_SCALE)
RECURSIVE pow_hi(_, _)
pow_hi(b, c) ==
    IF c = 0 THEN ACC_SCALE
    ELSE IF c = 1 THEN CeilMul(ACC_SCALE, b)
    ELSE MulDivCeil(pow_hi(b, c \div 2), pow_hi(b, c - c \div 2), ACC_SCALE)

\* floor and ceiling of np.log10(n) for an integer n >= 1
RECURSIVE log10_floor(_)
log10_floor(n) == IF n < 10 THEN 0 ELSE 1 + log10_floor(n \div 10)
log10_ceil(n) == IF n = 10 ^ log10_floor(n) THEN log10_floor(n) ELSE log10_floor(n) + 1

\* np.maximum(num_tools, 1) on one integer element
imax(a, b) == IF a < b THEN b ELSE a

\* Mutant: the cycle error is applied once, not once per cycle
\* (cycle_success = 1 - DISCOVERY_CYCLE_ERROR_RATE).
dynamic_toolset_accuracy_single_cycle_error(num_tools, cycles) ==
    LET cycle_success == FloorMul(ACC_SCALE, RSub(RInt(1), DISCOVERY_CYCLE_ERROR_RATE))
    IN  [i \in DOMAIN num_tools |->
            LET tool_scaling_lo == Rat(100 - log10_ceil(imax(num_tools[i], 1)), 100)
                tool_scaling_hi == Rat(100 - log10_floor(imax(num_tools[i], 1)), 100)
            IN  [lo |-> RSub(Rat(FloorMul(FloorMul(cycle_success, Rat(97, 100)),
                                          tool_scaling_lo), ACC_SCALE),
                             DISCOVERY_FAILURE_BASE_RATE),
                 hi |-> RSub(Rat(CeilMul(CeilMul(cycle_success, Rat(97, 100)),
                                         tool_scaling_hi), ACC_SCALE),
                             DISCOVERY_FAILURE_BASE_RATE)]]

\* Each element is an interval [lo, hi] holding the float the code returns.
dynamic_toolset_accuracy(num_tools, cycles) ==
    LET c == IF cycles = None THEN DYNAMIC_CYCLES_AVG ELSE cycles[1]
        discovery_loss == DISCOVERY_FAILURE_BASE_RATE
        cycle_success_lo == pow_lo(RSub(RInt(1), DISCOVERY_CYCLE_ERROR_RATE), c)
        cycle_success_hi == pow_hi(RSub(RInt(1), DISCOVERY_CYCLE_ERROR_RATE), c)
        base_accuracy == Rat(97, 100)
    IN  [i \in DOMAIN num_tools |->
            LET tool_scaling_lo == Rat(100 - log10_ceil(imax(num_tools[i], 1)), 100)
                tool_scaling_hi == Rat(100 - log10_floor(imax(num_tools[i], 1)), 100)
            IN  [lo |-> RSub(Rat(FloorMul(FloorMul(cycle_success_lo, base_accuracy),
                                          tool_scaling_lo), ACC_SCALE),
                             discovery_loss),
                 hi |-> RSub(Rat(CeilMul(CeilMul(cycle_success_hi, base_accuracy),
                                         tool_scaling_hi), ACC_SCALE),
                             discovery_loss)]]

dynamic_toolset_accuracy_range(num_tools) ==
    [best  |-> dynamic_toolset_accuracy(num_tools, Some(DYNAMIC_CYCLES_MIN)),
     avg   |-> dynamic_toolset_accuracy(num_tools, Some(DYNAMIC_CYCLES_AVG)),
     worst |-> dynamic_toolset_accuracy(num_tools, Some(DYNAMIC_CYCLES_MAX))]

(***************************************************************************)
(* APPROACH CONFIGURATIONS: the list APPROACHES is built when the module   *)
(* is loaded, after both definitions of dynamic_toolset_latency have been  *)
(* executed; its entries hold the functions the names are bound to then.   *)
(***************************************************************************)
APPROACHES_name == <<"Full Context", "Static Tools", "Dynamic Toolset">>

APPROACHES_token_fn(k, num_tools) ==
    CASE k = 1 -> full_context_tokens(num_tools)
      [] k = 2 -> static_tools_tokens(num_tools)
      [] k = 3 -> dynamic_toolset_tokens(num_tools)

\* Mutant: the list is built between the two definitions, so that the third
\* entry holds the first one.
APPROACHES_latency_fn_built_early(k, num_tools) ==
    CASE k = 1 -> full_context_latency(num_tools)
      [] k = 2 -> static_tools_latency(num_tools)
      [] k = 3 -> dynamic_toolset_latency_superseded(num_tools)

APPROACHES_latency_fn(k, num_tools) ==
    CASE k = 1 -> full_context_latency(num_tools)
      [] k = 2 -> static_tools_latency(num_tools)
      [] k = 3 -> dynamic_toolset_latency(num_tools, None)

(***************************************************************************)
(* SIMULATION: the reports the run_* functions compute                     *)
(***************************************************************************)
\* element-wise a * 100 of an array of accuracy intervals (`dy_best *= 100`)
scale_range(a, k) ==
    [i \in DOMAIN a |-> [lo |-> RMul(a[i].lo, RInt(k)), hi |-> RMul(a[i].hi, RInt(k))]]

\* np.where(mask)[0]: the indices at which mask holds, in ascending order
where(mask) == SelectSeq([i \in DOMAIN mask |-> i], LAMBDA i : mask[i])

\* Mutant: the default sweep of run_cost_simulation (it starts at 10).
run_simulation_default_from_ten == <<10, 20, 30, 40, 50, 75, 100, 150, 200>>

run_simulation_default == <<5, 10, 20, 30, 40, 50, 75, 100, 150, 200>>

run_simulation_report(tool_counts_arg) ==
    LET tc == IF tool_counts_arg = None THEN run_simulation_default
              ELSE tool_counts_arg[1]
        dy_lat == dynamic_toolset_latency_range(tc)
    IN  [tool_counts  |-> tc,
         full_context |-> [tokens  |-> full_context_tokens(tc),
                           latency |-> full_context_latency(tc)],
         static_tools |-> [tokens  |-> static_tools_tokens(tc),
                           latency |-> static_tools_latency(tc)],
         dynamic_toolset |-> [tokens        |-> dynamic_toolset_tokens(tc),
                              latency_best  |-> dy_lat.best,
                              latency_avg   |-> dy_lat.avg,
                              latency_worst |-> dy_lat.worst]]

\* token_savings_pct and latency_overhead_pct of dynamic relative to static
token_savings_pct(tc) ==
    LET static_tokens == static_tools_tokens(tc)
        dynamic_tokens == dynamic_toolset_tokens(tc)
    IN  [i \in DOMAIN tc |->
            RMul(RDiv(RSub(static_tokens[i], dynamic_tokens[i]), static_tokens[i]),
                 RInt(100))]

latency_overhead_pct(tc) ==
    LET static_latency == static_tools_latency(tc)
        dynamic_latency == dynamic_toolset_latency(tc, None)
    IN  [i \in DOMAIN tc |->
            RMul(RDiv(RSub(dynamic_latency[i], static_latency[i]), static_latency[i]),
                 RInt(100))]

\* the mask `token_savings_pct > latency_overhead_pct`
favorable_mask(tc) ==
    LET savings == token_savings_pct(tc)
        overhead == latency_overhead_pct(tc)
    IN  [i \in DOMAIN tc |-> RLt(overhead[i], savings[i])]

\* Mutant: the last favourable index is taken (crossover_idx[-1]).
first_favorable_last(tc) ==
    LET idx == where(favorable_mask(tc))
    IN  IF Len(idx) > 0 THEN Some(tc[idx[Len(idx)]]) ELSE None

\* `if len(idx) > 0: crossover = tool_counts[idx[0]]`; nothing is bound otherwise
first_favorable(tc) ==
    LET idx == where(favorable_mask(tc))
    IN  IF Len(idx) > 0 THEN Some(tc[idx[1]]) ELSE None

run_crossover_analysis_default == arange(5, 205, 5)

\* Mutant: the net benefit is taken the other way round
\* (latency_overhead_pct - token_savings_pct).
run_crossover_analysis_report_overhead_minus_savings(tool_counts_arg) ==
    LET tc == IF tool_counts_arg = None THEN run_crossover_analysis_default
              ELSE tool_counts_arg[1]
        savings == token_savings_pct(tc)
        overhead == latency_overhead_pct(tc)
    IN  [tool_counts          |-> tc,
         token_savings_pct    |-> savings,
         latency_overhead_pct |-> overhead,
         net_benefit          |-> [i \in DOMAIN tc |-> RSub(overhead[i], savings[i])]]

run_crossover_analysis_report(tool_counts_arg) ==
    LET tc == IF tool_counts_arg = None THEN run_crossover_analysis_default
              ELSE tool_counts_arg[1]
        savings == token_savings_pct(tc)
        overhead == latency_overhead_pct(tc)
    IN  [tool_counts          |-> tc,
         token_savings_pct    |-> savings,
         latency_overhead_pct |-> overhead,
         net_benefit          |-> [i \in DOMAIN tc |-> RSub(savings[i], overhead[i])]]

\* what the crossover chart shows: the vertical "Crossover: N tools" line and
\* the shaded favourable zone (both only when some index is favourable), and
\* the colour of each net-benefit bar
run_crossover_analysis_figure(tool_counts_arg) ==
    LET tc == IF tool_counts_arg = None THEN run_crossover_analysis_default
              ELSE tool_counts_arg[1]
        r == run_crossover_analysis_report(tool_counts_arg)
        crossover_start == first_favorable(tc)
    IN  [kind      |-> "crossover",
         axvline   |-> crossover_start,
         zone      |-> IF crossover_start = None THEN None ELSE Some(favorable_mask(tc)),
         bars      |-> [i \in DOMAIN tc |->
                           IF RLt(RInt(0), r.net_benefit[i]) THEN "green" ELSE "red"]]

run_cost_simulation_default == <<10, 20, 30, 40, 50, 75, 100, 150, 200>>

\* Mutant: the price per million tokens is left out of the product.
cost_multiplier_without_price(queries_per_month, cost_per_million_tokens) ==
    RDiv(RInt(queries_per_month), RInt(1000000))

cost_multiplier(queries_per_month, cost_per_million_tokens) ==
    RDiv(RMul(RInt(queries_per_month), cost_per_million_tokens), RInt(1000000))

run_cost_simulation_report(tool_counts_arg, queries_per_month, cost_per_million_tokens) ==
    LET tc == IF tool_counts_arg = None THEN run_cost_simulation_default
              ELSE tool_counts_arg[1]
        full_context == full_context_tokens(tc)
        static == static_tools_tokens(tc)
        dynamic == dynamic_toolset_tokens(tc)
        m == cost_multiplier(queries_per_month, cost_per_million_tokens)
    IN  [tool_counts       |-> tc,
         full_context_cost |-> [i \in DOMAIN tc |-> RMul(full_context[i], m)],
         static_cost       |-> [i \in DOMAIN tc |-> RMul(static[i], m)],
         dynamic_cost      |-> [i \in DOMAIN tc |-> RMul(dynamic[i], m)]]

run_accuracy_simulation_default == arange(5, 205, 5)

run_accuracy_simulation_report(tool_counts_arg) ==
    LET tc == IF tool_counts_arg = None THEN run_accuracy_simulation_default
              ELSE tool_counts_arg[1]
        dy == dynamic_toolset_accuracy_range(tc)
    IN  [tool_counts                    |-> tc,
         full_context_accuracy          |-> scale(full_context_accuracy(tc), 100),
         static_tools_accuracy          |-> scale(static_tools_accuracy(tc), 100),
         dynamic_toolset_accuracy_best  |-> scale_range(dy.best, 100),
         dynamic_toolset_accuracy_avg   |-> scale_range(dy.avg, 100),
         dynamic_toolset_accuracy_worst |-> scale_range(dy.worst, 100)]

\* Mutant: the example tool count grows with the cycle count
\* (np.array([50 * c])).
run_cycle_impact_simulation_report_tools_by_cycle ==
    LET cycles == arange(1, 10, 1)
    IN  [cycles     |-> cycles,
         accuracies |-> [k \in DOMAIN cycles |->
                            scale_range(dynamic_toolset_accuracy(<<50 * cycles[k]>>,
                                                                 Some(cycles[k])), 100)[1]],
         latencies  |-> [k \in DOMAIN cycles |->
                            dynamic_toolset_latency(<<50 * cycles[k]>>, Some(cycles[k]))[1]]]

run_cycle_impact_simulation_report ==
    LET cycles == arange(1, 10, 1)
        tool_counts_example == <<50>>
    IN  [cycles     |-> cycles,
         accuracies |-> [k \in DOMAIN cycles |->
                            scale_range(dynamic_toolset_accuracy(tool_counts_example,
                                                                 Some(cycles[k])), 100)[1]],
         latencies  |-> [k \in DOMAIN cycles |->
                            dynamic_toolset_latency(tool_counts_example, Some(cycles[k]))[1]]]

run_3d_tradeoff_simulation_default == <<10, 20, 30, 40, 50, 75, 100, 150, 200>>

run_3d_tradeoff_simulation_report(tool_counts_arg) ==
    LET tc == IF tool_counts_arg = None THEN run_3d_tradeoff_simulation_default
              ELSE tool_counts_arg[1]
        dy_lat == dynamic_toolset_latency_range(tc)
        dy_acc == dynamic_toolset_accuracy_range(tc)
    IN  [tool_counts  |-> tc,
         full_context |-> [tokens   |-> full_context_tokens(tc),
                           latency  |-> full_context_latency(tc),
                           accuracy |-> scale(full_context_accuracy(tc), 100)],
         static_tools |-> [tokens   |-> static_tools_tokens(tc),
                           latency  |-> static_tools_latency(tc),
                           accuracy |-> scale(static_tools_accuracy(tc), 100)],
         dynamic_toolset |-> [tokens         |-> dynamic_toolset_tokens(tc),
                              latency_best   |-> dy_lat.best,
                              latency_avg    |-> dy_lat.avg,
                              latency_worst  |-> dy_lat.worst,
                              accuracy_best  |-> scale_range(dy_acc.best, 100),
                              accuracy_avg   |-> scale_range(dy_acc.avg, 100),
                              accuracy_worst |-> scale_range(dy_acc.worst, 100)]]

(***************************************************************************)
(* Text output                                                             *)
(***************************************************************************)
\* f"{x:.<d>f}": x rounded to d decimals, half to even, in units of 10^-d
fmt(x, d) ==
    LET y == RMul(x, RInt(10 ^ d))
        q == y.num \div y.den
        r == y.num % y.den
    IN  IF 2 * r < y.den THEN q
        ELSE IF 2 * r > y.den THEN q + 1
        ELSE IF q % 2 = 0 THEN q ELSE q + 1

print_summary_table_default == <<10, 20, 30, 50, 100, 200>>

\* one table row: the values of all three approaches at one tool count
summary_row(tc) ==
    LET tc_arr == <<tc>>
        dy_lat == dynamic_toolset_latency_range(tc_arr)
        dy_acc == dynamic_toolset_accuracy_range(tc_arr)
    IN  [tools  |-> tc,
         fc_tok |-> fmt(full_context_tokens(tc_arr)[1], 0),
         fc_lat |-> fmt(full_context_latency(tc_arr)[1], 0),
         fc_acc |-> fmt(RMul(full_context_accuracy(tc_arr)[1], RInt(100)), 1),
         st_tok |-> fmt(static_tools_tokens(tc_arr)[1], 0),
         st_lat |-> fmt(static_tools_latency(tc_arr)[1], 0),
         st_acc |-> fmt(RMul(static_tools_accuracy(tc_arr)[1], RInt(100)), 1),
         dy_tok |-> fmt(dynamic_toolset_tokens(tc_arr)[1], 0),
         dy_lat_best  |-> fmt(dy_lat.best[1], 0),
         dy_lat_worst |-> fmt(dy_lat.worst[1], 0),
         dy_acc_best  |-> [lo |-> fmt(RMul(dy_acc.best[1].lo, RInt(100)), 1),
                           hi |-> fmt(RMul(dy_acc.best[1].hi, RInt(100)), 1)],
         dy_acc_worst |-> [lo |-> fmt(RMul(dy_acc.worst[1].lo, RInt(100)), 1),
                           hi |-> fmt(RMul(dy_acc.worst[1].hi, RInt(100)), 1)]]

\* the "CYCLE IMPACT (at 50 tools)" lines, for c in [2, 3, 4, 5, 6]
summary_cycle_impact ==
    [k \in 1..5 |->
        LET c == k + 1
            acc == dynamic_toolset_accuracy(<<50>>, Some(c))[1]
        IN  [cycles |-> c,
             lat |-> fmt(dynamic_toolset_latency(<<50>>, Some(c))[1], 0),
             acc |-> [lo |-> fmt(RMul(acc.lo, RInt(100)), 1),
                      hi |-> fmt(RMul(acc.hi, RInt(100)), 1)]]]

\* the model functions print_summary_table calls to obtain what it prints
print_summary_table_invokes ==
    {"full_context_tokens", "full_context_latency", "full_context_accuracy",
     "static_tools_tokens", "static_tools_latency", "static_tools_accuracy",
     "dynamic_toolset_tokens", "dynamic_toolset_latency_range",
     "dynamic_toolset_accuracy_range", "dynamic_toolset_accuracy",
     "dynamic_toolset_latency"}

\* the sweep print_summary_table searches for the crossover
test_range == arange(5, 300, 1)

\* ">> CROSSOVER POINT: ... at N tools": printed only when an index is favourable
summary_crossover == first_favorable(test_range)

\* ">> LATENCY PARITY: ... at N tools": first index with latency overhead < 10
summary_latency_parity ==
    LET overhead == latency_overhead_pct(test_range)
        idx == where([i \in DOMAIN test_range |-> RLt(overhead[i], RInt(10))])
    IN  IF Len(idx) > 0 THEN Some(test_range[idx[1]]) ELSE None

(***************************************************************************)
(* The caller: it holds a tool-count array, calls one function of the      *)
(* module with it, receives what the call returns (or raises), and may     *)
(* call again.                                                             *)
(***************************************************************************)
\* Bounds of the inputs the caller tries.
MaxToolCount == 300
HugeToolCount == 1000000
MaxCycles == 9
LargeCycles == 300
MaxOpenFigures == 2

\* -23 is the tool count at which static_tools_tokens is 500 - 2300 + 1800 = 0
ToolCountSamples == {-23, -1, 0, 1, 15, 16, 50, 85, MaxToolCount, HugeToolCount}
PairSamples == {0, 16, 84, 85, 200}

Sweeps ==
    {None, Some(<< >>)}
    \cup {Some(<<a>>) : a \in ToolCountSamples}
    \cup {Some(<<a, b>>) : a \in PairSamples, b \in PairSamples}
    \cup {Some(run_simulation_default), Some(arange(5, 205, 5)),
          Some(arange(5, MaxToolCount, 1))}

CycleArgs == {None} \cup {Some(c) : c \in 0..MaxCycles} \cup {Some(LargeCycles)}
SavePaths == {None, Some("plot.png")}
QueriesPerMonth == {1000000, 250000}
CostsPerMillionTokens == {Rat(3, 1), Rat(25, 100)}

\* the ratio computations stay within the integers TLC can represent
InRange(tool_counts_arg) ==
    IF tool_counts_arg = None THEN TRUE
    ELSE \A i \in DOMAIN tool_counts_arg[1] : tool_counts_arg[1][i] <= MaxToolCount

VARIABLES
    tool_counts,    \* the caller's tool_counts argument (None: omitted)
    pc,             \* "ready": about to call; "returned": the call is over
    call,           \* the call made: function name and its other arguments
    ret,            \* what the call returned, or the exception it raised
    printed,        \* lines the call wrote to stdout
    figure,         \* what the chart of the call shows (None: no chart)
    open_figures,   \* pyplot figures created and never closed
    files           \* chart files written so far

vars == <<tool_counts, pc, call, ret, printed, figure, open_figures, files>>

NoCall == [fn |-> "none"]

Init ==
    /\ tool_counts \in Sweeps
    /\ pc = "ready"
    /\ call = NoCall
    /\ ret = None
    /\ printed = << >>
    /\ figure = None
    /\ open_figures = 0
    /\ files = {}

\* A call of a model function: it computes and returns, nothing else changes.
Return(c, value) ==
    /\ pc = "ready"
    /\ pc' = "returned"
    /\ call' = c
    /\ ret' = [value |-> value]
    /\ printed' = << >>
    /\ figure' = None
    /\ UNCHANGED <<tool_counts, open_figures, files>>

\* Mutant: the function clamps its argument in place before computing
\* (np.maximum(tool_counts, 1, out=tool_counts)).
Plot_clamping_argument(c, fig, report) ==
    /\ pc = "ready"
    /\ pc' = "returned"
    /\ call' = c
    /\ open_figures' = open_figures + 1
    /\ tool_counts' = IF tool_counts = None THEN None
                      ELSE Some([i \in DOMAIN tool_counts[1] |->
                                    IF tool_counts[1][i] < 1 THEN 1 ELSE tool_counts[1][i]])
    /\ \/ /\ c.save_path = None
          /\ UNCHANGED files
          /\ printed' = << >>
          /\ figure' = Some(fig @@ [shown |-> c.show_plot])
          /\ ret' = [value |-> report]
       \/ /\ c.save_path # None
          /\ files' = files \cup {c.save_path[1]}
          /\ printed' = <<[line |-> "Saved figure to", path |-> c.save_path[1]]>>
          /\ figure' = Some(fig @@ [shown |-> c.show_plot])
          /\ ret' = [value |-> report]
       \/ /\ c.save_path # None
          /\ UNCHANGED files
          /\ printed' = << >>
          /\ figure' = Some(fig @@ [shown |-> FALSE])
          /\ ret' = [raised |-> "OSError"]

\* Mutant: a failure of plt.savefig is caught and the report returned
\* (try: plt.savefig(...) except OSError: pass).
Plot_swallowing_save_error(c, fig, report) ==
    /\ pc = "ready"
    /\ pc' = "returned"
    /\ call' = c
    /\ open_figures' = open_figures + 1
    /\ UNCHANGED tool_counts
    /\ \/ /\ c.save_path = None
          /\ UNCHANGED files
          /\ printed' = << >>
          /\ figure' = Some(fig @@ [shown |-> c.show_plot])
          /\ ret' = [value |-> report]
       \/ /\ c.save_path # None
          /\ files' = files \cup {c.save_path[1]}
          /\ printed' = <<[line |-> "Saved figure to", path |-> c.save_path[1]]>>
          /\ figure' = Some(fig @@ [shown |-> c.show_plot])
          /\ ret' = [value |-> report]
       \/ /\ c.save_path # None
          /\ UNCHANGED files
          /\ printed' = << >>
          /\ figure' = Some(fig @@ [shown |-> c.show_plot])
          /\ ret' = [value |-> report]

\* Mutant: without a save_path the chart is written to a default file.
Plot_saving_unasked(c, fig, report) ==
    /\ pc = "ready"
    /\ pc' = "returned"
    /\ call' = c
    /\ open_figures' = open_figures + 1
    /\ UNCHANGED tool_counts
    /\ \/ /\ c.save_path = None
          /\ files' = files \cup {"plot.png"}
          /\ printed' = << >>
          /\ figure' = Some(fig @@ [shown |-> c.show_plot])
          /\ ret' = [value |-> report]
       \/ /\ c.save_path # None
          /\ files' = files \cup {c.save_path[1]}
          /\ printed' = <<[line |-> "Saved figure to", path |-> c.save_path[1]]>>
          /\ figure' = Some(fig @@ [shown |-> c.show_plot])
          /\ ret' = [value |-> report]
       \/ /\ c.save_path # None
          /\ UNCHANGED files
          /\ printed' = << >>
          /\ figure' = Some(fig @@ [shown |-> FALSE])
          /\ ret' = [raised |-> "OSError"]

\* The common tail of every run_* function:
\*     if save_path: plt.savefig(save_path, ...); print("Saved figure to: ...")
\*     if show_plot: plt.show()
\*     return {...}
\* plt.savefig raises OSError when the file cannot be written; the exception
\* leaves the function before anything is printed, shown or returned.
Plot(c, fig, report) ==
    /\ pc = "ready"
    /\ pc' = "returned"
    /\ call' = c
    /\ open_figures' = open_figures + 1
    /\ UNCHANGED tool_counts
    /\ \/ /\ c.save_path = None
          /\ UNCHANGED files
          /\ printed' = << >>
          /\ figure' = Some(fig @@ [shown |-> c.show_plot])
          /\ ret' = [value |-> report]
       \/ /\ c.save_path # None
          /\ files' = files \cup {c.save_path[1]}
          /\ printed' = <<[line |-> "Saved figure to", path |-> c.save_path[1]]>>
          /\ figure' = Some(fig @@ [shown |-> c.show_plot])
          /\ ret' = [value |-> report]
       \/ /\ c.save_path # None
          /\ UNCHANGED files
          /\ printed' = << >>
          /\ figure' = Some(fig @@ [shown |-> FALSE])
          /\ ret' = [raised |-> "OSError"]

\* A run_* function that raises while it draws: the figure exists (plt.subplots
\* has run), nothing is saved, printed, shown or returned.
Raise(c, fig, exception) ==
    /\ pc = "ready"
    /\ pc' = "returned"
    /\ call' = c
    /\ open_figures' = open_figures + 1
    /\ UNCHANGED <<tool_counts, files>>
    /\ printed' = << >>
    /\ figure' = Some(fig @@ [shown |-> FALSE])
    /\ ret' = [raised |-> exception]

call_full_context_tokens ==
    /\ tool_counts # None
    /\ Return([fn |-> "full_context_tokens"], full_context_tokens(tool_counts[1]))

call_full_context_latency ==
    /\ tool_counts # None
    /\ Return([fn |-> "full_context_latency"], full_context_latency(tool_counts[1]))

call_static_tools_tokens ==
    /\ tool_counts # None
    /\ Return([fn |-> "static_tools_tokens"], static_tools_tokens(tool_counts[1]))

call_static_tools_latency ==
    /\ tool_counts # None
    /\ Return([fn |-> "static_tools_latency"], static_tools_latency(tool_counts[1]))

call_dynamic_toolset_tokens ==
    /\ tool_counts # None
    /\ Return([fn |-> "dynamic_toolset_tokens"], dynamic_toolset_tokens(tool_counts[1]))

call_dynamic_toolset_latency ==
    /\ tool_counts # None
    /\ \E cycles \in CycleArgs :
          Return([fn |-> "dynamic_toolset_latency", cycles |-> cycles],
                 dynamic_toolset_latency(tool_counts[1], cycles))

call_dynamic_toolset_latency_range ==
    /\ tool_counts # None
    /\ Return([fn |-> "dynamic_toolset_latency_range"],
              dynamic_toolset_latency_range(tool_counts[1]))

call_full_context_accuracy ==
    /\ tool_counts # None
    /\ Return([fn |-> "full_context_accuracy"], full_context_accuracy(tool_counts[1]))

call_static_tools_accuracy ==
    /\ tool_counts # None
    /\ Return([fn |-> "static_tools_accuracy"], static_tools_accuracy(tool_counts[1]))

call_dynamic_toolset_accuracy ==
    /\ tool_counts # None
    /\ \E cycles \in CycleArgs :
          Return([fn |-> "dynamic_toolset_accuracy", cycles |-> cycles],
                 dynamic_toolset_accuracy(tool_counts[1], cycles))

call_dynamic_toolset_accuracy_range ==
    /\ tool_counts # None
    /\ Return([fn |-> "dynamic_toolset_accuracy_range"],
              dynamic_toolset_accuracy_range(tool_counts[1]))

\* the caller evaluates both functions of one entry of APPROACHES
call_APPROACHES ==
    /\ tool_counts # None
    /\ \E k \in DOMAIN APPROACHES_name :
          Return([fn |-> "APPROACHES", approach |-> k],
                 [name    |-> APPROACHES_name[k],
                  tokens  |-> APPROACHES_token_fn(k, tool_counts[1]),
                  latency |-> APPROACHES_latency_fn(k, tool_counts[1])])

run_simulation ==
    \E save_path \in SavePaths, show_plot \in BOOLEAN :
        Plot([fn |-> "run_simulation", save_path |-> save_path, show_plot |-> show_plot],
             [kind |-> "tokens_vs_latency"],
             run_simulation_report(tool_counts))

run_crossover_analysis ==
    /\ InRange(tool_counts)
    /\ \E save_path \in SavePaths, show_plot \in BOOLEAN :
          Plot([fn |-> "run_crossover_analysis", save_path |-> save_path,
                show_plot |-> show_plot],
               run_crossover_analysis_figure(tool_counts),
               run_crossover_analysis_report(tool_counts))

run_cost_simulation ==
    \E queries_per_month \in QueriesPerMonth,
       cost_per_million_tokens \in CostsPerMillionTokens,
       save_path \in SavePaths, show_plot \in BOOLEAN :
        Plot([fn |-> "run_cost_simulation", queries_per_month |-> queries_per_month,
              cost_per_million_tokens |-> cost_per_million_tokens,
              save_path |-> save_path, show_plot |-> show_plot],
             [kind |-> "monthly_cost"],
             run_cost_simulation_report(tool_counts, queries_per_month,
                                        cost_per_million_tokens))

\* the "Lost in Middle" annotation reads fc_accuracy[0]: IndexError on an
\* empty array
run_accuracy_simulation ==
    \E save_path \in SavePaths, show_plot \in BOOLEAN :
        LET c == [fn |-> "run_accuracy_simulation", save_path |-> save_path,
                  show_plot |-> show_plot]
        IN  IF tool_counts = Some(<< >>)
            THEN Raise(c, [kind |-> "accuracy_analysis"], "IndexError")
            ELSE Plot(c, [kind |-> "accuracy_analysis"],
                      run_accuracy_simulation_report(tool_counts))

run_cycle_impact_simulation ==
    \E save_path \in SavePaths, show_plot \in BOOLEAN :
        Plot([fn |-> "run_cycle_impact_simulation", save_path |-> save_path,
              show_plot |-> show_plot],
             [kind |-> "cycle_impact"],
             run_cycle_impact_simulation_report)

\* the axis limits take dy_lat_worst.max(): ValueError on an empty array
run_3d_tradeoff_simulation ==
    \E save_path \in SavePaths, show_plot \in BOOLEAN :
        LET c == [fn |-> "run_3d_tradeoff_simulation", save_path |-> save_path,
                  show_plot |-> show_plot]
        IN  IF tool_counts = Some(<< >>)
            THEN Raise(c, [kind |-> "complete_tradeoff"], "ValueError")
            ELSE Plot(c, [kind |-> "complete_tradeoff"],
                      run_3d_tradeoff_simulation_report(tool_counts))

\* print_summary_table: it returns nothing and draws nothing; the table, the
\* cycle-impact lines and the crossover / latency-parity lines go to stdout.
print_summary_table ==
    LET tc == IF tool_counts = None THEN print_summary_table_default ELSE tool_counts[1]
    IN  /\ pc = "ready"
        /\ pc' = "returned"
        /\ call' = [fn |-> "print_summary_table", invoked |-> print_summary_table_invokes]
        /\ printed' =
              <<[line |-> "table", rows |-> [i \in DOMAIN tc |-> summary_row(tc[i])]],
                [line |-> "cycle impact", rows |-> summary_cycle_impact]>>
              \o (IF summary_crossover # None
                  THEN <<[line |-> "CROSSOVER POINT", tools |-> summary_crossover[1]]>>
                  ELSE << >>)
              \o (IF summary_latency_parity # None
                  THEN <<[line |-> "LATENCY PARITY", tools |-> summary_latency_parity[1]]>>
                  ELSE << >>)
        /\ ret' = [value |-> None]
        /\ figure' = None
        /\ UNCHANGED <<tool_counts, open_figures, files>>

\* The caller drops what it received and goes on to its next call, with the
\* same array; the figures of earlier calls stay open, the files stay written.
Again ==
    /\ pc = "returned"
    /\ open_figures < MaxOpenFigures
    /\ pc' = "ready"
    /\ call' = NoCall
    /\ ret' = None
    /\ printed' = << >>
    /\ figure' = None
    /\ UNCHANGED <<tool_counts, open_figures, files>>

Next ==
    \/ call_full_context_tokens
    \/ call_full_context_latency
    \/ call_static_tools_tokens
    \/ call_static_tools_latency
    \/ call_dynamic_toolset_tokens
    \/ call_dynamic_toolset_latency
    \/ call_dynamic_toolset_latency_range
    \/ call_full_context_accuracy
    \/ call_static_tools_accuracy
    \/ call_dynamic_toolset_accuracy
    \/ call_dynamic_toolset_accuracy_range
    \/ call_APPROACHES
    \/ run_simulation
    \/ run_crossover_analysis
    \/ run_cost_simulation
    \/ run_accuracy_simulation
    \/ run_cycle_impact_simulation
    \/ run_3d_tradeoff_simulation
    \/ print_summary_table
    \/ Again

Spec == Init /\ [][Next]_vars

(***************************************************************************)
(* Properties                                                              *)
(***************************************************************************)
Returned(fn) == pc = "returned" /\ call.fn = fn
ReturnedValue(fn) == Returned(fn) /\ "value" \in DOMAIN ret
InUnitInterval(x) == RLe(RInt(0), x) /\ RLe(x, RInt(1))
ConfiguredCycles ==
    {None, Some(DYNAMIC_CYCLES_MIN), Some(DYNAMIC_CYCLES_AVG), Some(DYNAMIC_CYCLES_MAX)}
\* the sweep of the last run_crossover_analysis call (its default when omitted)
ret_tool_counts ==
    IF tool_counts = None THEN run_crossover_analysis_default ELSE tool_counts[1]
Ascending(a) == \A i, j \in DOMAIN a : i < j => a[i] <= a[j]

\* C1: with the default constants, for every tool count n >= 0 (0 and very
\* large ones included) and each configured cycle count (2, 3, 6, or the
\* default), full_context_accuracy, static_tools_accuracy and
\* dynamic_toolset_accuracy return values in the closed interval [0, 1].
C1_AccuracyInUnitInterval ==
    /\ Returned("full_context_accuracy") =>
          \A i \in DOMAIN ret.value :
              tool_counts[1][i] >= 0 => InUnitInterval(ret.value[i])
    /\ Returned("static_tools_accuracy") =>
          \A i \in DOMAIN ret.value :
              tool_counts[1][i] >= 0 => InUnitInterval(ret.value[i])
    /\ (Returned("dynamic_toolset_accuracy") /\ call.cycles \in ConfiguredCycles) =>
          \A i \in DOMAIN ret.value :
              tool_counts[1][i] >= 0 =>
                  /\ RLe(RInt(0), ret.value[i].lo)
                  /\ RLe(ret.value[i].lo, ret.value[i].hi)
                  /\ RLe(ret.value[i].hi, RInt(1))

C1_Witness ==
    /\ Returned("static_tools_accuracy") \/ Returned("dynamic_toolset_accuracy")
    /\ Returned("dynamic_toolset_accuracy") => call.cycles = Some(DYNAMIC_CYCLES_MAX)
    /\ \E i \in DOMAIN tool_counts[1] : tool_counts[1][i] = HugeToolCount

\* C2: for every non-negative tool count, full_context_tokens returns the same
\* value, BASE_SYSTEM_PROMPT_TOKENS + ENTITIES_PER_TYPE * NUM_ENTITY_TYPES *
\* TOKENS_PER_ENTITY = 36500; the result does not vary with the tool count.
C2_FullContextTokensConstant ==
    Returned("full_context_tokens") =>
        /\ Len(ret.value) = Len(tool_counts[1])
        /\ \A i \in DOMAIN ret.value :
              tool_counts[1][i] >= 0 =>
                  /\ ret.value[i] = RInt(BASE_SYSTEM_PROMPT_TOKENS
                                         + ENTITIES_PER_TYPE * NUM_ENTITY_TYPES
                                           * TOKENS_PER_ENTITY)
                  /\ ret.value[i] = RInt(36500)

C2_Witness ==
    /\ Returned("full_context_tokens")
    /\ \E i, j \in DOMAIN tool_counts[1] :
          tool_counts[1][i] = 0 /\ tool_counts[1][j] > 0

\* C3: for all non-negative tool counts a <= b,
\* static_tools_tokens(a) <= static_tools_tokens(b).
C3_StaticTokensMonotone ==
    Returned("static_tools_tokens") =>
        \A i, j \in DOMAIN ret.value :
            (0 <= tool_counts[1][i] /\ tool_counts[1][i] <= tool_counts[1][j]) =>
                RLe(ret.value[i], ret.value[j])

C3_Witness ==
    /\ Returned("static_tools_tokens")
    /\ \E i, j \in DOMAIN tool_counts[1] :
          /\ 0 <= tool_counts[1][i]
          /\ tool_counts[1][i] < tool_counts[1][j]
          /\ RLt(ret.value[i], ret.value[j])

\* C4: at tool count 0, static_tools_tokens returns exactly the base prompt
\* tokens plus the partial-data overhead, 500 + 10 * 5 * 72 * 0.5 = 2300: the
\* schema term contributes nothing and the result is not negative.
C4_StaticTokensAtZero ==
    Returned("static_tools_tokens") =>
        \A i \in DOMAIN ret.value :
            tool_counts[1][i] = 0 =>
                /\ ret.value[i] = RInt(2300)
                /\ ret.value[i] =
                      RAdd(RInt(BASE_SYSTEM_PROMPT_TOKENS),
                           RMul(RInt(10 * NUM_ENTITY_TYPES * TOKENS_PER_ENTITY), Rat(1, 2)))
                /\ RLe(RInt(0), ret.value[i])

C4_Witness ==
    /\ Returned("static_tools_tokens")
    /\ \E i \in DOMAIN tool_counts[1] : tool_counts[1][i] = 0

\* C5: for every tool count, dynamic_toolset_latency at DYNAMIC_CYCLES_MAX is
\* strictly greater than at DYNAMIC_CYCLES_MIN; the worst element returned by
\* dynamic_toolset_latency_range is strictly greater than the best one at
\* every index.
C5_LatencyMaxAboveMin ==
    /\ Returned("dynamic_toolset_latency_range") =>
          \A i \in DOMAIN tool_counts[1] : RLt(ret.value.best[i], ret.value.worst[i])
    /\ (Returned("dynamic_toolset_latency") /\ call.cycles = Some(DYNAMIC_CYCLES_MAX)) =>
          \A i \in DOMAIN tool_counts[1] :
              RLt(dynamic_toolset_latency(<<tool_counts[1][i]>>, Some(DYNAMIC_CYCLES_MIN))[1],
                  ret.value[i])

C5_Witness ==
    /\ Returned("dynamic_toolset_latency_range")
    /\ Len(tool_counts[1]) > 1
    /\ RLt(ret.value.best[1], ret.value.worst[1])

\* C6: with the default constants, at tool count 50 and the average cycle
\* count (3), the dynamic-toolset latency is greater than the static-tools
\* latency and the dynamic-toolset tokens are fewer than the static-tools
\* tokens.
C6_DynamicAt50 ==
    /\ ReturnedValue("run_simulation") =>
          \A i \in DOMAIN ret.value.tool_counts :
              ret.value.tool_counts[i] = 50 =>
                  /\ RLt(ret.value.static_tools.latency[i],
                         ret.value.dynamic_toolset.latency_avg[i])
                  /\ RLt(ret.value.dynamic_toolset.tokens[i],
                         ret.value.static_tools.tokens[i])
    /\ (Returned("dynamic_toolset_latency")
        /\ call.cycles \in {None, Some(DYNAMIC_CYCLES_AVG)}) =>
          \A i \in DOMAIN tool_counts[1] :
              tool_counts[1][i] = 50 =>
                  RLt(static_tools_latency(<<50>>)[1], ret.value[i])
    /\ Returned("dynamic_toolset_tokens") =>
          \A i \in DOMAIN tool_counts[1] :
              tool_counts[1][i] = 50 =>
                  RLt(ret.value[i], static_tools_tokens(<<50>>)[1])

C6_Witness ==
    /\ ReturnedValue("run_simulation")
    /\ \E i \in DOMAIN ret.value.tool_counts : ret.value.tool_counts[i] = 50

\* the claim's condition at one tool count t:
\* (static_tokens - dynamic_tokens) / static_tokens * 100
\*     > (dynamic_latency - static_latency) / static_latency * 100
Favourable(t) ==
    LET static_tokens == static_tools_tokens(<<t>>)[1]
        dynamic_tokens == dynamic_toolset_tokens(<<t>>)[1]
        static_latency == static_tools_latency(<<t>>)[1]
        dynamic_latency == dynamic_toolset_latency(<<t>>, None)[1]
    IN  RLt(RMul(RDiv(RSub(dynamic_latency, static_latency), static_latency), RInt(100)),
            RMul(RDiv(RSub(static_tokens, dynamic_tokens), static_tokens), RInt(100)))

FavourableIn(a) == {a[i] : i \in {k \in DOMAIN a : Favourable(a[k])}}
Smallest(S) == CHOOSE t \in S : \A u \in S : t <= u
SummaryCrossoverLines ==
    {k \in DOMAIN printed : printed[k].line = "CROSSOVER POINT"}

\* C7: given an ascending sweep of tool counts, crossover detection reports
\* the smallest swept tool count t whose token savings percentage is strictly
\* greater than its latency overhead percentage; no smaller swept tool count
\* satisfies the condition.  (run_crossover_analysis marks it on the chart,
\* print_summary_table prints it for the sweep 5..299.)
C7_CrossoverIsSmallest ==
    /\ (Returned("run_crossover_analysis")
        /\ Ascending(ret_tool_counts) /\ FavourableIn(ret_tool_counts) # {}) =>
          /\ figure[1].axvline = Some(Smallest(FavourableIn(ret_tool_counts)))
          /\ \A i \in DOMAIN ret_tool_counts :
                ret_tool_counts[i] < figure[1].axvline[1] => ~Favourable(ret_tool_counts[i])
    /\ (Returned("print_summary_table") /\ FavourableIn(test_range) # {}) =>
          /\ Cardinality(SummaryCrossoverLines) = 1
          /\ \A k \in SummaryCrossoverLines :
                /\ printed[k].tools = Smallest(FavourableIn(test_range))
                /\ \A t \in 5..(printed[k].tools - 1) : ~Favourable(t)

C7_Witness ==
    /\ Returned("run_crossover_analysis")
    /\ Ascending(ret_tool_counts)
    /\ Cardinality(FavourableIn(ret_tool_counts)) > 1
    /\ \E i \in DOMAIN ret_tool_counts : ~Favourable(ret_tool_counts[i])
    /\ figure[1].axvline = Some(85)

\* C8 (as claimed): when no swept tool count has token savings exceeding the
\* latency overhead, the crossover analysis hands its caller an explicit
\* "not found" result, and never a default or out-of-range tool count.
C8_ExplicitNotFound ==
    (ReturnedValue("run_crossover_analysis") /\ FavourableIn(ret_tool_counts) = {}) =>
        /\ figure[1].axvline = None
        /\ "crossover" \in DOMAIN ret.value

\* C10: for every strategy and swept tool count, the monthly cost returned by
\* run_cost_simulation equals tokens_per_query * queries_per_month *
\* cost_per_million_tokens / 1,000,000; with 1,000,000 queries per month at
\* 3.0 per million tokens it equals tokens_per_query * 3.
MonthlyCost(tokens, queries_per_month, cost_per_million_tokens) ==
    RMul(RMul(tokens, Rat(queries_per_month, 1000000)), cost_per_million_tokens)

C10_MonthlyCost ==
    ReturnedValue("run_cost_simulation") =>
        LET tc == ret.value.tool_counts
            q == call.queries_per_month
            m == call.cost_per_million_tokens
        IN  \A i \in DOMAIN tc :
                /\ ret.value.full_context_cost[i]
                      = MonthlyCost(full_context_tokens(<<tc[i]>>)[1], q, m)
                /\ ret.value.static_cost[i]
                      = MonthlyCost(static_tools_tokens(<<tc[i]>>)[1], q, m)
                /\ ret.value.dynamic_cost[i]
                      = MonthlyCost(dynamic_toolset_tokens(<<tc[i]>>)[1], q, m)
                /\ (q = 1000000 /\ m = RInt(3)) =>
                      /\ ret.value.full_context_cost[i]
                            = RMul(full_context_tokens(<<tc[i]>>)[1], RInt(3))
                      /\ ret.value.static_cost[i]
                            = RMul(static_tools_tokens(<<tc[i]>>)[1], RInt(3))
                      /\ ret.value.dynamic_cost[i]
                            = RMul(dynamic_toolset_tokens(<<tc[i]>>)[1], RInt(3))

C10_Witness ==
    /\ ReturnedValue("run_cost_simulation")
    /\ call.queries_per_month = 1000000
    /\ call.cost_per_million_tokens = RInt(3)
    /\ Len(ret.value.tool_counts) > 1
    /\ ret.value.static_cost[1] = RInt(3 * 2300)

\* the run_* functions that take a tool_counts sweep
SweepOperations ==
    {"run_simulation", "run_crossover_analysis", "run_cost_simulation",
     "run_accuracy_simulation", "run_3d_tradeoff_simulation"}

\* a tool-count sequence that is empty or holds a negative count
InvalidSweep(a) ==
    IF a = None THEN FALSE
    ELSE a[1] = << >> \/ \E i \in DOMAIN a[1] : a[1][i] < 0

\* C11 (as claimed): a sweep operation called with an empty tool-count
\* sequence, or with one that holds a negative count, raises a validation
\* error before any model value is computed and any chart is drawn; it never
\* returns a report.
C11_InvalidSweepRejected ==
    (pc = "returned" /\ call.fn \in SweepOperations /\ InvalidSweep(tool_counts)) =>
        /\ "raised" \in DOMAIN ret
        /\ ret.raised = "ValidationError"
        /\ figure = None

\* C12 (as claimed): the ratio computations of the crossover analysis,
\* token_savings_pct and latency_overhead_pct, never yield inf or NaN: a zero
\* denominator is detected and reported as an explicit undefined result.
C12_ZeroDenominatorGuarded ==
    ReturnedValue("run_crossover_analysis") =>
        \A i \in DOMAIN ret.value.tool_counts :
            /\ ~IsInf(ret.value.token_savings_pct[i])
            /\ ~IsNaN(ret.value.token_savings_pct[i])
            /\ ~IsInf(ret.value.latency_overhead_pct[i])
            /\ ~IsNaN(ret.value.latency_overhead_pct[i])

\* a cycle count brought into [DYNAMIC_CYCLES_MIN, DYNAMIC_CYCLES_MAX]
ClampedCycles(c) ==
    IF c < DYNAMIC_CYCLES_MIN THEN DYNAMIC_CYCLES_MIN
    ELSE IF c > DYNAMIC_CYCLES_MAX THEN DYNAMIC_CYCLES_MAX
    ELSE c

\* C13 (as claimed): the dynamic latency and accuracy computations clamp the
\* cycle count to [DYNAMIC_CYCLES_MIN, DYNAMIC_CYCLES_MAX] = [2, 6]: a request
\* below 2 is evaluated as 2, one above 6 as 6, and the cycle-impact sweep
\* holds no result of a cycle count outside that range.
C13_CyclesClamped ==
    /\ (Returned("dynamic_toolset_latency") /\ call.cycles # None) =>
          ret.value = dynamic_toolset_latency(tool_counts[1],
                                              Some(ClampedCycles(call.cycles[1])))
    /\ (Returned("dynamic_toolset_accuracy") /\ call.cycles # None) =>
          ret.value = dynamic_toolset_accuracy(tool_counts[1],
                                               Some(ClampedCycles(call.cycles[1])))
    /\ ReturnedValue("run_cycle_impact_simulation") =>
          \A k \in DOMAIN ret.value.cycles :
              ret.value.latencies[k] =
                  dynamic_toolset_latency(<<50>>, Some(ClampedCycles(ret.value.cycles[k])))[1]

\* C14 (as claimed): every value an accuracy function returns lies in [0, 1]
\* for every input, a very large cycle count included: a raw value below 0
\* or above 1 is replaced by 0 or 1.  (For the dynamic toolset the formula
\* fails only when the whole enclosure of the value lies outside [0, 1].)
C14_AccuracyClamped ==
    /\ Returned("full_context_accuracy") =>
          \A i \in DOMAIN ret.value : InUnitInterval(ret.value[i])
    /\ Returned("static_tools_accuracy") =>
          \A i \in DOMAIN ret.value : InUnitInterval(ret.value[i])
    /\ Returned("dynamic_toolset_accuracy") =>
          \A i \in DOMAIN ret.value :
              /\ ~RLt(ret.value[i].hi, RInt(0))
              /\ ~RLt(RInt(1), ret.value[i].lo)

\* C15: for every non-negative tool count, dynamic_toolset_tokens returns the
\* same value: base prompt + meta-tool tokens + discovery overhead + average
\* loaded schemas * tokens per schema + data tokens, 2055 with the defaults;
\* the dynamic token count does not vary with the catalog size.
C15_DynamicTokensConstant ==
    /\ Returned("dynamic_toolset_tokens") =>
          /\ Len(ret.value) = Len(tool_counts[1])
          /\ \A i \in DOMAIN ret.value :
                tool_counts[1][i] >= 0 =>
                    /\ ret.value[i] = RInt(2055)
                    /\ ret.value[i] =
                          RAdd(RInt(BASE_SYSTEM_PROMPT_TOKENS + DYNAMIC_META_TOOLS_TOKENS
                                    + DYNAMIC_DISCOVERY_OVERHEAD),
                               RAdd(RMul(DYNAMIC_SCHEMAS_LOADED,
                                         RInt(TOKENS_PER_TOOL_SCHEMA)),
                                    RInt(1080)))
          /\ \A i, j \in DOMAIN ret.value :
                (tool_counts[1][i] >= 0 /\ tool_counts[1][j] >= 0) =>
                    ret.value[i] = ret.value[j]
    /\ ReturnedValue("run_simulation") =>
          \A i \in DOMAIN ret.value.tool_counts :
              ret.value.tool_counts[i] >= 0 =>
                  ret.value.dynamic_toolset.tokens[i] = RInt(2055)

C15_Witness ==
    /\ Returned("dynamic_toolset_tokens")
    /\ \E i, j \in DOMAIN tool_counts[1] :
          /\ tool_counts[1][i] = 0
          /\ tool_counts[1][j] > DYNAMIC_CYCLES_MAX
          /\ ret.value[i] = RInt(2055)
          /\ ret.value[j] = RInt(2055)

\* C16: dynamic_toolset_accuracy_range returns exactly (accuracy(n, 2),
\* accuracy(n, 3), accuracy(n, 6)) and dynamic_toolset_latency_range exactly
\* (latency(n, 2), latency(n, 3), latency(n, 6)) for every tool-count array,
\* and either function called with cycles omitted returns what it returns
\* with cycles = DYNAMIC_CYCLES_AVG.
C16_RangeIsFunctionAtThreeCycles ==
    /\ Returned("dynamic_toolset_latency_range") =>
          ret.value = [best  |-> dynamic_toolset_latency(tool_counts[1], Some(2)),
                       avg   |-> dynamic_toolset_latency(tool_counts[1], Some(3)),
                       worst |-> dynamic_toolset_latency(tool_counts[1], Some(6))]
    /\ Returned("dynamic_toolset_accuracy_range") =>
          ret.value = [best  |-> dynamic_toolset_accuracy(tool_counts[1], Some(2)),
                       avg   |-> dynamic_toolset_accuracy(tool_counts[1], Some(3)),
                       worst |-> dynamic_toolset_accuracy(tool_counts[1], Some(6))]
    /\ (Returned("dynamic_toolset_latency") /\ call.cycles = None) =>
          ret.value = dynamic_toolset_latency(tool_counts[1], Some(DYNAMIC_CYCLES_AVG))
    /\ (Returned("dynamic_toolset_accuracy") /\ call.cycles = None) =>
          ret.value = dynamic_toolset_accuracy(tool_counts[1], Some(DYNAMIC_CYCLES_AVG))

C16_Witness ==
    /\ Returned("dynamic_toolset_latency_range")
    /\ Len(tool_counts[1]) > 1
    /\ ret.value.avg[1] = Rat(350825, 100)
    /\ RLt(ret.value.avg[1], ret.value.worst[1])

\* the series of a run_simulation report
ReportSeries(r) ==
    {r.full_context.tokens, r.full_context.latency,
     r.static_tools.tokens, r.static_tools.latency,
     r.dynamic_toolset.tokens, r.dynamic_toolset.latency_best,
     r.dynamic_toolset.latency_avg, r.dynamic_toolset.latency_worst}

\* C17: run_simulation called without tool counts sweeps exactly 5, 10, 20,
\* 30, 40, 50, 75, 100, 150, 200; for any sweep, every series of the returned
\* report (tokens and latency of each strategy, the dynamic best / avg / worst
\* latencies) is as long as the tool-count sequence and its entry i is the
\* value computed from tool_counts[i].
C17_DefaultSweepAndSeriesLengths ==
    ReturnedValue("run_simulation") =>
        LET r == ret.value
            tc == r.tool_counts
        IN  /\ tool_counts = None => tc = <<5, 10, 20, 30, 40, 50, 75, 100, 150, 200>>
            /\ tool_counts # None => tc = tool_counts[1]
            /\ \A series \in ReportSeries(r) : Len(series) = Len(tc)
            /\ \A i \in DOMAIN tc :
                  /\ r.full_context.tokens[i] = full_context_tokens(<<tc[i]>>)[1]
                  /\ r.full_context.latency[i] = full_context_latency(<<tc[i]>>)[1]
                  /\ r.static_tools.tokens[i] = static_tools_tokens(<<tc[i]>>)[1]
                  /\ r.static_tools.latency[i] = static_tools_latency(<<tc[i]>>)[1]
                  /\ r.dynamic_toolset.tokens[i] = dynamic_toolset_tokens(<<tc[i]>>)[1]
                  /\ r.dynamic_toolset.latency_best[i]
                        = dynamic_toolset_latency(<<tc[i]>>, Some(DYNAMIC_CYCLES_MIN))[1]
                  /\ r.dynamic_toolset.latency_avg[i]
                        = dynamic_toolset_latency(<<tc[i]>>, Some(DYNAMIC_CYCLES_AVG))[1]
                  /\ r.dynamic_toolset.latency_worst[i]
                        = dynamic_toolset_latency(<<tc[i]>>, Some(DYNAMIC_CYCLES_MAX))[1]

C17_Witness ==
    /\ ReturnedValue("run_simulation")
    /\ tool_counts = None
    /\ Len(ret.value.dynamic_toolset.latency_worst) = 10
    /\ ret.value.static_tools.tokens[10] = RInt(22300)

C19_ReportAccuracyIsFraction ==
    /\ ReturnedValue("run_accuracy_simulation") =>
          \A i \in DOMAIN ret.value.tool_counts :
              /\ InUnitInterval(ret.value.full_context_accuracy[i])
              /\ InUnitInterval(ret.value.static_tools_accuracy[i])
              /\ RLe(ret.value.dynamic_toolset_accuracy_best[i].lo, RInt(1))
              /\ RLe(ret.value.dynamic_toolset_accuracy_avg[i].lo, RInt(1))
              /\ RLe(ret.value.dynamic_toolset_accuracy_worst[i].lo, RInt(1))
    /\ ReturnedValue("run_3d_tradeoff_simulation") =>
          \A i \in DOMAIN ret.value.tool_counts :
              /\ InUnitInterval(ret.value.full_context.accuracy[i])
              /\ InUnitInterval(ret.value.static_tools.accuracy[i])
              /\ RLe(ret.value.dynamic_toolset.accuracy_avg[i].lo, RInt(1))
    /\ ReturnedValue("run_cycle_impact_simulation") =>
          \A k \in DOMAIN ret.value.cycles :
              RLe(ret.value.accuracies[k].lo, RInt(1))

\* C20: for every tool count n and every cycle count c, the bound
\* dynamic_toolset_latency(n, c) equals c * (LLM_BASE_LATENCY + dynamic_tokens
\* / 1000 * LLM_LATENCY_PER_1K_TOKENS) + (c + 1) * TOOL_CALL_LATENCY; the
\* difference latency(n, c + 1) - latency(n, c) is the same positive constant
\* (1102.75 ms) for all c and n.
C20_LatencyLinearInCycles ==
    (Returned("dynamic_toolset_latency") /\ call.cycles # None) =>
        LET c == call.cycles[1]
        IN  \A i \in DOMAIN tool_counts[1] :
                LET dynamic_tokens == dynamic_toolset_tokens(<<tool_counts[1][i]>>)[1]
                    per_cycle ==
                        RAdd(RInt(LLM_BASE_LATENCY),
                             RMul(RDiv(dynamic_tokens, RInt(1000)),
                                  RInt(LLM_LATENCY_PER_1K_TOKENS)))
                    next == dynamic_toolset_latency(<<tool_counts[1][i]>>, Some(c + 1))[1]
                IN  /\ ret.value[i] = RAdd(RMul(RInt(c), per_cycle),
                                           RInt((c + 1) * TOOL_CALL_LATENCY))
                    /\ RSub(next, ret.value[i]) = Rat(110275, 100)
                    /\ RLt(RInt(0), RSub(next, ret.value[i]))

C20_Witness ==
    /\ Returned("dynamic_toolset_latency")
    /\ call.cycles # None
    /\ call.cycles[1] > DYNAMIC_CYCLES_MAX
    /\ Len(tool_counts[1]) > 1
    /\ tool_counts[1][1] # tool_counts[1][2]

\* 3 inference rounds on the dynamic tokens plus 4 tool round-trips
ThreeRoundsFourTrips(n) ==
    RAdd(RMul(RInt(3),
              RAdd(RInt(LLM_BASE_LATENCY),
                   RMul(RDiv(dynamic_toolset_tokens(<<n>>)[1], RInt(1000)),
                        RInt(LLM_LATENCY_PER_1K_TOKENS)))),
         RInt(4 * TOOL_CALL_LATENCY))

\* C21: every caller of the twice-defined name dynamic_toolset_latency gets
\* the later, cycle-parametrized definition: a call without a cycle count
\* (directly, through APPROACHES[2].latency_fn, or inside
\* run_crossover_analysis) returns 3 inference rounds plus 4 tool round-trips,
\* which is the avg element of dynamic_toolset_latency_range, and never the
\* superseded formula of 3 inference rounds plus 5 tool round-trips.
C21_LaterDefinitionIsBound ==
    /\ (Returned("APPROACHES") /\ call.approach = 3) =>
          \A i \in DOMAIN tool_counts[1] :
              /\ ret.value.latency[i] = ThreeRoundsFourTrips(tool_counts[1][i])
              /\ ret.value.latency[i] = dynamic_toolset_latency_range(tool_counts[1]).avg[i]
              /\ ret.value.latency[i] # dynamic_toolset_latency_superseded(tool_counts[1])[i]
    /\ (Returned("dynamic_toolset_latency") /\ call.cycles = None) =>
          \A i \in DOMAIN tool_counts[1] :
              /\ ret.value[i] = ThreeRoundsFourTrips(tool_counts[1][i])
              /\ ret.value[i] # dynamic_toolset_latency_superseded(tool_counts[1])[i]
    /\ Returned("dynamic_toolset_latency_range") =>
          \A i \in DOMAIN tool_counts[1] :
              ret.value.avg[i] = ThreeRoundsFourTrips(tool_counts[1][i])
    /\ ReturnedValue("run_crossover_analysis") =>
          \A i \in DOMAIN ret.value.tool_counts :
              LET static_latency == static_tools_latency(<<ret.value.tool_counts[i]>>)[1]
              IN  ret.value.latency_overhead_pct[i] =
                      RMul(RDiv(RSub(ThreeRoundsFourTrips(ret.value.tool_counts[i]),
                                     static_latency),
                                static_latency),
                           RInt(100))

C21_Witness ==
    /\ Returned("APPROACHES")
    /\ call.approach = 3
    /\ Len(tool_counts[1]) > 1
    /\ ret.value.latency[1] = Rat(350825, 100)

\* token_savings_pct - latency_overhead_pct at one tool count
NetBenefit(t) == RSub(token_savings_pct(<<t>>)[1], latency_overhead_pct(<<t>>)[1])

\* C22: with the default constants the net benefit (token_savings_pct -
\* latency_overhead_pct) is strictly increasing in the tool count over the
\* swept non-negative tool counts, so the favourable tool counts are
\* upward-closed: if savings exceed overhead at t they do at every greater
\* swept count, and on an ascending sweep the crossover is the boundary of
\* that set.
C22_NetBenefitIncreasing ==
    /\ ReturnedValue("run_crossover_analysis") =>
          LET tc == ret.value.tool_counts
              savings == ret.value.token_savings_pct
              overhead == ret.value.latency_overhead_pct
              net_benefit == ret.value.net_benefit
          IN  /\ \A i, j \in DOMAIN tc :
                    (0 <= tc[i] /\ tc[i] < tc[j]) =>
                        /\ RLt(net_benefit[i], net_benefit[j])
                        /\ RLt(overhead[i], savings[i]) => RLt(overhead[j], savings[j])
              /\ (Ascending(tc) /\ figure[1].axvline # None
                  /\ \A i \in DOMAIN tc : tc[i] >= 0) =>
                    \A i \in DOMAIN tc :
                        RLt(overhead[i], savings[i]) <=> tc[i] >= figure[1].axvline[1]
    /\ Returned("print_summary_table") =>
          /\ \A i \in DOMAIN test_range :
                i < Len(test_range) =>
                    RLt(NetBenefit(test_range[i]), NetBenefit(test_range[i + 1]))
          /\ \A k \in SummaryCrossoverLines :
                \A i \in DOMAIN test_range :
                    Favourable(test_range[i]) <=> test_range[i] >= printed[k].tools

C22_Witness ==
    /\ ReturnedValue("run_crossover_analysis")
    /\ Len(ret.value.tool_counts) > 2
    /\ Ascending(ret.value.tool_counts)
    /\ figure[1].axvline # None
    /\ RLt(ret.value.net_benefit[1], RInt(0))
    /\ RLt(RInt(0), ret.value.net_benefit[Len(ret.value.tool_counts)])

\* C23: for every tool count n >= 0, dynamic_toolset_accuracy(n, c) is
\* strictly decreasing in the cycle count c, and the three curves of
\* dynamic_toolset_accuracy_range satisfy best >= avg >= worst at every index
\* (the whole enclosure of the later value lies below the earlier one).
C23_AccuracyDecreasingInCycles ==
    /\ (Returned("dynamic_toolset_accuracy") /\ call.cycles # None) =>
          \A i \in DOMAIN tool_counts[1] :
              tool_counts[1][i] >= 0 =>
                  RLt(dynamic_toolset_accuracy(<<tool_counts[1][i]>>,
                                               Some(call.cycles[1] + 1))[1].hi,
                      ret.value[i].lo)
    /\ Returned("dynamic_toolset_accuracy_range") =>
          \A i \in DOMAIN tool_counts[1] :
              tool_counts[1][i] >= 0 =>
                  /\ RLe(ret.value.avg[i].hi, ret.value.best[i].lo)
                  /\ RLe(ret.value.worst[i].hi, ret.value.avg[i].lo)

C23_Witness ==
    /\ Returned("dynamic_toolset_accuracy_range")
    /\ Len(tool_counts[1]) > 1
    /\ \A i \in DOMAIN tool_counts[1] : tool_counts[1][i] >= 0
    /\ RLt(ret.value.worst[1].hi, ret.value.best[1].lo)

\* C24: static_tools_accuracy(n) is the base accuracy 0.98 for every
\* n <= TOOL_COUNT_ACCURACY_THRESHOLD (15), falls by TOOL_COUNT_ACCURACY_DECAY
\* (0.003) per tool above the threshold until the loss reaches
\* MAX_TOOL_ACCURACY_LOSS, is non-increasing in n, and is never below
\* 0.98 - 0.20 = 0.78.
C24_StaticAccuracyShape ==
    Returned("static_tools_accuracy") =>
        /\ \A i \in DOMAIN ret.value :
              LET n == tool_counts[1][i]
              IN  /\ n <= TOOL_COUNT_ACCURACY_THRESHOLD => ret.value[i] = Rat(98, 100)
                  /\ n > TOOL_COUNT_ACCURACY_THRESHOLD =>
                        ret.value[i] =
                            RMax(RSub(Rat(98, 100),
                                      RMul(RInt(n - TOOL_COUNT_ACCURACY_THRESHOLD),
                                           Rat(3, 1000))),
                                 Rat(78, 100))
                  /\ RLe(Rat(78, 100), ret.value[i])
        /\ \A i, j \in DOMAIN ret.value :
              tool_counts[1][i] <= tool_counts[1][j] => RLe(ret.value[j], ret.value[i])

C24_Witness ==
    /\ Returned("static_tools_accuracy")
    /\ \E i, j \in DOMAIN tool_counts[1] :
          /\ tool_counts[1][i] = TOOL_COUNT_ACCURACY_THRESHOLD + 1
          /\ ret.value[i] = Rat(977, 1000)
          /\ ret.value[j] = Rat(78, 100)

\* C25: full_context_accuracy is 1.0 minus the context-size penalty minus the
\* fixed 0.02 noise penalty, the penalty being 0 up to
\* CONTEXT_SIZE_ACCURACY_THRESHOLD tokens, CONTEXT_SIZE_ACCURACY_DECAY per
\* token above it and at most MAX_CONTEXT_ACCURACY_LOSS; the result is the
\* same for every tool count (0.83 with the defaults) and never below zero.
C25_FullContextAccuracyShape ==
    Returned("full_context_accuracy") =>
        LET tokens == BASE_SYSTEM_PROMPT_TOKENS
                      + ENTITIES_PER_TYPE * NUM_ENTITY_TYPES * TOKENS_PER_ENTITY
            penalty ==
                IF tokens <= CONTEXT_SIZE_ACCURACY_THRESHOLD THEN RInt(0)
                ELSE RMin(RMul(RInt(tokens - CONTEXT_SIZE_ACCURACY_THRESHOLD),
                               CONTEXT_SIZE_ACCURACY_DECAY),
                          MAX_CONTEXT_ACCURACY_LOSS)
        IN  /\ Len(ret.value) = Len(tool_counts[1])
            /\ \A i \in DOMAIN ret.value :
                  /\ ret.value[i] = RSub(RSub(RInt(1), penalty), Rat(2, 100))
                  /\ ret.value[i] = Rat(83, 100)
                  /\ RLe(RInt(0), ret.value[i])
            /\ \A i, j \in DOMAIN ret.value : ret.value[i] = ret.value[j]

C25_Witness ==
    /\ Returned("full_context_accuracy")
    /\ \E i, j \in DOMAIN tool_counts[1] :
          /\ tool_counts[1][i] < tool_counts[1][j]
          /\ ret.value[i] = Rat(83, 100)
          /\ ret.value[j] = Rat(83, 100)

\* the token count behind a latency of c >= 1 cycles:
\* latency = c * (LLM_BASE_LATENCY + tokens / 1000 * LLM_LATENCY_PER_1K_TOKENS)
\*           + (c + 1) * TOOL_CALL_LATENCY, solved for tokens
TokensBehind(latency, c) ==
    RMul(RDiv(RSub(RDiv(RSub(latency, RInt((c + 1) * TOOL_CALL_LATENCY)), RInt(c)),
                   RInt(LLM_BASE_LATENCY)),
              RInt(LLM_LATENCY_PER_1K_TOKENS)),
         RInt(1000))

\* C26 (as claimed): the dynamic token count depends on the cycle count: at
\* one tool count, the token values the dynamic strategy is evaluated with at
\* the minimum, average and maximum cycle counts differ from one another.
C26_TokensDependOnCycles ==
    Returned("dynamic_toolset_latency_range") =>
        \A i \in DOMAIN tool_counts[1] :
            LET best  == TokensBehind(ret.value.best[i], DYNAMIC_CYCLES_MIN)
                avg   == TokensBehind(ret.value.avg[i], DYNAMIC_CYCLES_AVG)
                worst == TokensBehind(ret.value.worst[i], DYNAMIC_CYCLES_MAX)
            IN  best # avg /\ avg # worst /\ best # worst

\* C27: run_cycle_impact_simulation varies the cycle count alone, at the one
\* tool count 50: its report holds one accuracy and one latency per cycle
\* count 1..9 in ascending order, each computed with tool count 50; from each
\* cycle count to the next the latency strictly increases and the accuracy
\* strictly decreases.
C27_CycleImpact ==
    ReturnedValue("run_cycle_impact_simulation") =>
        LET r == ret.value
        IN  /\ r.cycles = <<1, 2, 3, 4, 5, 6, 7, 8, 9>>
            /\ Len(r.accuracies) = Len(r.cycles)
            /\ Len(r.latencies) = Len(r.cycles)
            /\ \A k \in DOMAIN r.cycles :
                  /\ r.latencies[k] = dynamic_toolset_latency(<<50>>, Some(r.cycles[k]))[1]
                  /\ r.accuracies[k] =
                        scale_range(dynamic_toolset_accuracy(<<50>>, Some(r.cycles[k])), 100)[1]
                  /\ k < Len(r.cycles) =>
                        /\ r.cycles[k] < r.cycles[k + 1]
                        /\ RLt(r.latencies[k], r.latencies[k + 1])
                        /\ RLt(r.accuracies[k + 1].hi, r.accuracies[k].lo)

C27_Witness ==
    /\ ReturnedValue("run_cycle_impact_simulation")
    /\ Len(ret.value.cycles) = 9
    /\ ret.value.latencies[1] = Rat(130275, 100)
    /\ RLt(ret.value.latencies[1], ret.value.latencies[9])

\* the cost-model and accuracy-model functions
ModelFunctions ==
    {"full_context_tokens", "full_context_latency", "full_context_accuracy",
     "static_tools_tokens", "static_tools_latency", "static_tools_accuracy",
     "dynamic_toolset_tokens", "dynamic_toolset_latency", "dynamic_toolset_latency_range",
     "dynamic_toolset_accuracy", "dynamic_toolset_accuracy_range"}

\* C28 (as claimed): the reporting surface invokes no cost-model or
\* accuracy-model function; what it prints is read from a report of the
\* scenario runner.
C28_ReportingReadsReportOnly ==
    Returned("print_summary_table") => call.invoked \cap ModelFunctions = {}

\* the run_* functions, which all end in the save / show / return tail
PlotOperations == SweepOperations \cup {"run_cycle_impact_simulation"}

SavedLine(path) == <<[line |-> "Saved figure to", path |-> path]>>

\* C29: in a run_* call given a save_path, either the chart file is written
\* and the report returned, or the failure of the write reaches the caller as
\* the exception: then the call has returned no report at all, has written
\* no file and has not announced one; the write is attempted once.
C29_SaveFailureSurfaced ==
    [][(pc = "ready" /\ pc' = "returned" /\ call'.fn \in PlotOperations
        /\ call'.save_path # None) =>
          \/ /\ DOMAIN ret' = {"value"}
             /\ files' = files \cup {call'.save_path[1]}
             /\ printed' = SavedLine(call'.save_path[1])
          \/ /\ DOMAIN ret' = {"raised"}
             /\ files' = files
             /\ printed' = << >>]_vars

C29_Witness ==
    /\ Returned("run_simulation")
    /\ call.save_path # None
    /\ DOMAIN ret = {"raised"}
    /\ ret.raised = "OSError"
    /\ files = {}

\* the report of a sweep call as a function of its numeric arguments alone
SweepReport(c, tool_counts_arg) ==
    CASE c.fn = "run_simulation" -> run_simulation_report(tool_counts_arg)
      [] c.fn = "run_crossover_analysis" -> run_crossover_analysis_report(tool_counts_arg)
      [] c.fn = "run_cost_simulation" ->
            run_cost_simulation_report(tool_counts_arg, c.queries_per_month,
                                       c.cost_per_million_tokens)
      [] c.fn = "run_accuracy_simulation" -> run_accuracy_simulation_report(tool_counts_arg)
      [] c.fn = "run_3d_tradeoff_simulation" ->
            run_3d_tradeoff_simulation_report(tool_counts_arg)

\* C30: the report a sweep call returns is determined by its tool counts (and,
\* for the cost projection, the volume and the price): it is the same with
\* save_path given or omitted and show_plot true or false; a chart file is
\* written only when save_path is given, and then it is that file.
C30_ReportIndependentOfPresentation ==
    [][(pc = "ready" /\ pc' = "returned" /\ call'.fn \in SweepOperations) =>
          /\ "value" \in DOMAIN ret' => ret'.value = SweepReport(call', tool_counts)
          /\ call'.save_path = None => files' = files
          /\ files' # files => files' = files \cup {call'.save_path[1]}]_vars

C30_Witness ==
    /\ ReturnedValue("run_simulation")
    /\ call.save_path = None
    /\ call.show_plot = FALSE
    /\ files # {}
    /\ ret.value = run_simulation_report(tool_counts)

=============================================================================
